---- MODULE Spec2Model ----
(***************************************************************************)
(* The to-do page of june504/todo-vibe, in its two variants:               *)
(*   local      the in-memory page (src/unnamed/part_000)                  *)
(*   persisted  the page backed by a remote store (src/app/page.tsx)       *)
(*                                                                         *)
(* Conventions of the model                                                *)
(*   - a text is a sequence of characters, " " being the whitespace one;   *)
(*   - a due date is a string: "" is "no due date", NULL the remote null;  *)
(*   - a task id is a positive number, NoId stands for null;               *)
(*   - the labels of categoryOptions are romanised in the order of the     *)
(*     source: "eopmu", "gaein", "hakseup", "gita";                        *)
(*   - a handler of the persisted page runs up to its await in one step    *)
(*     (addTodo, toggleTodo, ...) and from the await on in another         *)
(*     (addTodo_resolve, ...). What the continuation reads from the        *)
(*     component's state is what the render it was called in held, so the  *)
(*     call record keeps those values.                                     *)
(***************************************************************************)
EXTENDS Integers, Sequences, FiniteSets, Bags, TLC

VARIABLES variant, todos, form, editingId, editForm, fieldEditing,
          fieldEditValue, filter, categoryFilter, sortBy, session,
          isSubmitting, feedback, inflight, nextId,
          calls, picked, ignored, toggles,
          isLoading, authLoading, authEmail, authPassword, remote, answers,
          trail, succeeded

\* the state of the page, the calls awaiting an answer, the counters
pageVars == <<variant, todos, form, editingId, editForm, fieldEditing,
              fieldEditValue, filter, categoryFilter, sortBy, session,
              isSubmitting, feedback, inflight, nextId, calls>>

\* picked: the editor this run's user works with (the full-row draft, the
\* inline field editor, or both) and the one change, besides typing a new
\* task's text, the user makes to forms and fields.
\* History, read by the properties only: ignored names the handler that
\* ran last if it returned without doing anything ("none" otherwise),
\* toggles[id] tells whether an odd number of toggles has taken effect on
\* task id, trail lists the calls awaiting their answers in the order the
\* user triggered them (kept in SpecOrder), and succeeded tells whether
\* every call served so far was served without an error (kept in
\* SpecSession).
\* The session layer of the persisted page: its loading flags, the sign-in
\* form, the rows the remote store holds (newest first) and the answers the
\* store has given that have not reached the page yet.  The store is
\* modelled in SpecSession; in the other specifications these stay as they
\* start.
sessionVars == <<isLoading, authLoading, authEmail, authPassword, remote, answers>>

vars == <<pageVars, picked, ignored, toggles, sessionVars, trail, succeeded>>

----------------------------------------------------------------------------
(* Bounds of the model *)

\* task ids of one run: those of the tasks the store already holds and those
\* the store or crypto.randomUUID() hands out
MaxTodos == 2
\* remote calls issued in one run
MaxCalls == 2
\* tasks of a collection the derived view is applied to (SpecView)
MaxViewLen == 3
\* tasks the page holds when the user turns to its rows (SpecRows)
RowsHeld == 3
\* tasks of a collection the sort is applied to (SpecSort)
MaxSortLen == 3
\* tasks the page holds when the user turns to its statistics (SpecStats)
MaxStatsLen == 8

----------------------------------------------------------------------------
(* Domain model *)

NoId == 0
NULL == "NULL"

categoryOptions == <<"eopmu", "gaein", "hakseup", "gita">>
priorityOptions == <<"low", "medium", "high">>

Categories == {categoryOptions[i] : i \in DOMAIN categoryOptions}
Priorities == {priorityOptions[i] : i \in DOMAIN priorityOptions}
FilterTypes == {"all", "completed", "pending"}
SortTypes == {"date", "priority", "category", "name"}
FieldKeys == {"priority", "category", "dueDate"}

NoFeedback == [type |-> "none", message |-> "none"]
NoFieldEditing == [id |-> NoId, field |-> "none"]

emptyForm ==
    [text |-> <<>>, category |-> categoryOptions[1], priority |-> "medium",
     dueDate |-> ""]

----------------------------------------------------------------------------
(* Pure helpers *)

RECURSIVE trimStart(_)
trimStart(s) ==
    IF s = <<>> THEN <<>>
    ELSE IF Head(s) = " " THEN trimStart(Tail(s)) ELSE s

RECURSIVE trimEnd(_)
trimEnd(s) ==
    IF s = <<>> THEN <<>>
    ELSE IF s[Len(s)] = " " THEN trimEnd(SubSeq(s, 1, Len(s) - 1)) ELSE s

\* String.prototype.trim
trim(s) == trimEnd(trimStart(s))

\* new Date(value).getTime(), in days
getTime(d) ==
    CASE d = "2024-01-05" -> 19727
      [] d = "2024-01-10" -> 19732
      [] d = "2024-01-20" -> 19742

\* the collation rank of a character, of a category label (localeCompare)
charRank(c) == CASE c = " " -> 0 [] c = "a" -> 1 [] c = "b" -> 2 [] c = "c" -> 3
categoryRank(c) ==
    CASE c = "gaein" -> 1 [] c = "gita" -> 2 [] c = "eopmu" -> 3
      [] c = "hakseup" -> 4

sign(n) == IF n < 0 THEN -1 ELSE IF n > 0 THEN 1 ELSE 0

RECURSIVE textCompare(_, _)
textCompare(a, b) ==
    IF a = <<>> /\ b = <<>> THEN 0
    ELSE IF a = <<>> THEN -1
    ELSE IF b = <<>> THEN 1
    ELSE IF charRank(Head(a)) # charRank(Head(b))
         THEN sign(charRank(Head(a)) - charRank(Head(b)))
         ELSE textCompare(Tail(a), Tail(b))

\* priorityOrder with the numbers of high and low exchanged
priorityOrder_lowFirst(p) ==
    CASE p = "high" -> 1 [] p = "medium" -> 2 [] p = "low" -> 3

priorityOrder(p) == CASE p = "high" -> 3 [] p = "medium" -> 2 [] p = "low" -> 1

\* compareTodos with the two results for a missing due date exchanged
compareTodos_undatedFirst(a, b, key) ==
    CASE key = "priority" -> priorityOrder(b.priority) - priorityOrder(a.priority)
      [] key = "category" ->
            sign(categoryRank(a.category) - categoryRank(b.category))
      [] key = "name" -> textCompare(a.text, b.text)
      [] OTHER ->
            IF a.dueDate = "" /\ b.dueDate = "" THEN 0
            ELSE IF a.dueDate = "" THEN -1
            ELSE IF b.dueDate = "" THEN 1
            ELSE getTime(a.dueDate) - getTime(b.dueDate)

\* the comparator handed to Array.prototype.sort
compareTodos(a, b, key) ==
    CASE key = "priority" -> priorityOrder(b.priority) - priorityOrder(a.priority)
      [] key = "category" ->
            sign(categoryRank(a.category) - categoryRank(b.category))
      [] key = "name" -> textCompare(a.text, b.text)
      [] OTHER ->
            IF a.dueDate = "" /\ b.dueDate = "" THEN 0
            ELSE IF a.dueDate = "" THEN 1
            ELSE IF b.dueDate = "" THEN -1
            ELSE getTime(a.dueDate) - getTime(b.dueDate)

\* Array.prototype.sort is stable: x goes behind every element it does not
\* sort before
RECURSIVE insertSorted(_, _, _)
insertSorted(s, x, key) ==
    IF s = <<>> THEN <<x>>
    ELSE IF compareTodos(x, Head(s), key) < 0 THEN <<x>> \o s
         ELSE <<Head(s)>> \o insertSorted(Tail(s), x, key)

RECURSIVE sortTodos(_, _)
sortTodos(s, key) ==
    IF s = <<>> THEN <<>>
    ELSE insertSorted(sortTodos(SubSeq(s, 1, Len(s) - 1), key), s[Len(s)], key)

----------------------------------------------------------------------------
(* Derived view *)

\* passesStatus without the negation of its pending case
passesStatus_pendingNotNegated(todo, f) ==
    CASE f = "completed" -> todo.completed
      [] f = "pending" -> todo.completed
      [] OTHER -> TRUE

passesStatus(todo, f) ==
    CASE f = "completed" -> todo.completed
      [] f = "pending" -> ~todo.completed
      [] OTHER -> TRUE

\* passesCategory without the case of the selector all
passesCategory_noAll(todo, cf) == todo.category = cf

passesCategory(todo, cf) == cf = "all" \/ todo.category = cf

filteredAndSortedTodosOf(ts, f, cf, key) ==
    LET byStatus == SelectSeq(ts, LAMBDA t : passesStatus(t, f))
        byCategory == SelectSeq(byStatus, LAMBDA t : passesCategory(t, cf))
    IN  sortTodos(byCategory, key)

filteredAndSortedTodos ==
    filteredAndSortedTodosOf(todos, filter, categoryFilter, sortBy)

\* the rows the page renders: none while the collection is loading
Shown ==
    IF isLoading THEN {}
    ELSE {filteredAndSortedTodos[i] : i \in DOMAIN filteredAndSortedTodos}

TodoIds == {todos[i].id : i \in DOMAIN todos}

----------------------------------------------------------------------------
(* What the user types and picks in this model *)

Changes ==
    {[field |-> "category", value |-> "gaein"],
     [field |-> "priority", value |-> "high"],
     [field |-> "dueDate", value |-> "2024-01-05"]}

Picks ==
    {[editor |-> "row", field |-> "text", value |-> <<"b", " ">>]}
    \cup {[editor |-> e, field |-> c.field, value |-> c.value] :
             e \in {"row", "inline"}, c \in Changes}

\* the create form: a blank text, a text to trim, and the picked change
CreateInputs ==
    {[field |-> "text", value |-> <<" ">>],
     [field |-> "text", value |-> <<" ", "a", " ">>]}
    \cup IF picked.field = "text" THEN {}
         ELSE {[field |-> picked.field, value |-> picked.value]}

\* the draft of a full-row edit: a blank text and the picked change
EditInputs ==
    {[field |-> "text", value |-> <<" ">>],
     [field |-> picked.field, value |-> picked.value]}

\* the inline editor of a field: the picked value, or the date cleared
FieldValueInputs ==
    IF picked.field = "dueDate" THEN {"", picked.value} ELSE {picked.value}

----------------------------------------------------------------------------
(* State setters, the same code in both pages *)

resetForm == form' = emptyForm

handleCreateChange(field, value) ==
    /\ form' = [form EXCEPT ![field] = value]
    /\ UNCHANGED <<variant, todos, editingId, editForm, fieldEditing,
                   fieldEditValue, filter, categoryFilter, sortBy, session,
                   isSubmitting, feedback, inflight, nextId,
                   calls>>

handleEditChange(field, value) ==
    /\ editForm' = [editForm EXCEPT ![field] = value]
    /\ UNCHANGED <<variant, todos, form, editingId, fieldEditing,
                   fieldEditValue, filter, categoryFilter, sortBy, session,
                   isSubmitting, feedback, inflight, nextId,
                   calls>>

startEditing(todo) ==
    /\ editingId' = todo.id
    /\ editForm' = [text |-> todo.text, category |-> todo.category,
                    priority |-> todo.priority, dueDate |-> todo.dueDate]
    /\ UNCHANGED <<variant, todos, form, fieldEditing, fieldEditValue, filter,
                   categoryFilter, sortBy, session, isSubmitting, feedback,
                   inflight, nextId,
                   calls>>

cancelEditing ==
    /\ editingId' = NoId
    /\ UNCHANGED <<variant, todos, form, editForm, fieldEditing,
                   fieldEditValue, filter, categoryFilter, sortBy, session,
                   isSubmitting, feedback, inflight, nextId,
                   calls>>

startFieldEditing(todo, field) ==
    /\ fieldEditing' = [id |-> todo.id, field |-> field]
    /\ fieldEditValue' = todo[field]
    /\ UNCHANGED <<variant, todos, form, editingId, editForm, filter,
                   categoryFilter, sortBy, session, isSubmitting, feedback,
                   inflight, nextId,
                   calls>>

setFieldEditValue(value) ==
    /\ fieldEditValue' = value
    /\ UNCHANGED <<variant, todos, form, editingId, editForm, fieldEditing,
                   filter, categoryFilter, sortBy, session, isSubmitting,
                   feedback, inflight, nextId,
                   calls>>

cancelFieldEditing ==
    /\ fieldEditing' = NoFieldEditing
    /\ fieldEditValue' = ""
    /\ UNCHANGED <<variant, todos, form, editingId, editForm, filter,
                   categoryFilter, sortBy, session, isSubmitting, feedback,
                   inflight, nextId,
                   calls>>

setFilter(value) ==
    /\ filter' = value
    /\ UNCHANGED <<variant, todos, form, editingId, editForm, fieldEditing,
                   fieldEditValue, categoryFilter, sortBy, session,
                   isSubmitting, feedback, inflight, nextId,
                   calls>>

setCategoryFilter(value) ==
    /\ categoryFilter' = value
    /\ UNCHANGED <<variant, todos, form, editingId, editForm, fieldEditing,
                   fieldEditValue, filter, sortBy, session, isSubmitting,
                   feedback, inflight, nextId,
                   calls>>

setSortBy(value) ==
    /\ sortBy' = value
    /\ UNCHANGED <<variant, todos, form, editingId, editForm, fieldEditing,
                   fieldEditValue, filter, categoryFilter, session,
                   isSubmitting, feedback, inflight, nextId,
                   calls>>

----------------------------------------------------------------------------
(* Mutations of the local page *)

\* addTodo_local storing the text as typed
addTodo_local_untrimmed ==
    /\ IF trim(form.text) = <<>>
       THEN UNCHANGED <<todos, form, nextId>>
       ELSE /\ nextId <= MaxTodos
            /\ todos' = Append(todos,
                   [id |-> nextId, text |-> form.text,
                    category |-> form.category, priority |-> form.priority,
                    dueDate |-> form.dueDate, completed |-> FALSE])
            /\ nextId' = nextId + 1
            /\ resetForm
    /\ UNCHANGED <<variant, editingId, editForm, fieldEditing, fieldEditValue,
                   filter, categoryFilter, sortBy, session, isSubmitting,
                   feedback, inflight,
                   calls>>

\* crypto.randomUUID() is an id no task has had: the next of a counter
addTodo_local ==
    /\ IF trim(form.text) = <<>>
       THEN UNCHANGED <<todos, form, nextId>>
       ELSE /\ nextId <= MaxTodos
            /\ todos' = Append(todos,
                   [id |-> nextId, text |-> trim(form.text),
                    category |-> form.category, priority |-> form.priority,
                    dueDate |-> form.dueDate, completed |-> FALSE])
            /\ nextId' = nextId + 1
            /\ resetForm
    /\ UNCHANGED <<variant, editingId, editForm, fieldEditing, fieldEditValue,
                   filter, categoryFilter, sortBy, session, isSubmitting,
                   feedback, inflight,
                   calls>>

toggleTodo_local(id) ==
    /\ todos' = [i \in DOMAIN todos |->
                   IF todos[i].id = id
                   THEN [todos[i] EXCEPT !.completed = ~todos[i].completed]
                   ELSE todos[i]]
    /\ UNCHANGED <<variant, form, editingId, editForm, fieldEditing,
                   fieldEditValue, filter, categoryFilter, sortBy, session,
                   isSubmitting, feedback, inflight, nextId,
                   calls>>

\* deleteTodo_local with the test of its filter inverted
deleteTodo_local_keepsMatch(id) ==
    /\ todos' = SelectSeq(todos, LAMBDA todo : todo.id = id)
    /\ editingId' = IF editingId = id THEN NoId ELSE editingId
    /\ UNCHANGED <<variant, form, editForm, fieldEditing, fieldEditValue,
                   filter, categoryFilter, sortBy, session, isSubmitting,
                   feedback, inflight, nextId,
                   calls>>

deleteTodo_local(id) ==
    /\ todos' = SelectSeq(todos, LAMBDA todo : todo.id # id)
    /\ editingId' = IF editingId = id THEN NoId ELSE editingId
    /\ UNCHANGED <<variant, form, editForm, fieldEditing, fieldEditValue,
                   filter, categoryFilter, sortBy, session, isSubmitting,
                   feedback, inflight, nextId,
                   calls>>

\* saveEditing_local storing the draft text as typed
saveEditing_local_untrimmed(id) ==
    /\ IF trim(editForm.text) = <<>>
       THEN UNCHANGED <<todos, editingId>>
       ELSE /\ todos' = [i \in DOMAIN todos |->
                   IF todos[i].id = id
                   THEN [todos[i] EXCEPT !.text = editForm.text,
                                         !.category = editForm.category,
                                         !.priority = editForm.priority,
                                         !.dueDate = editForm.dueDate]
                   ELSE todos[i]]
            /\ editingId' = NoId
    /\ UNCHANGED <<variant, form, editForm, fieldEditing, fieldEditValue,
                   filter, categoryFilter, sortBy, session, isSubmitting,
                   feedback, inflight, nextId,
                   calls>>

saveEditing_local(id) ==
    /\ IF trim(editForm.text) = <<>>
       THEN UNCHANGED <<todos, editingId>>
       ELSE /\ todos' = [i \in DOMAIN todos |->
                   IF todos[i].id = id
                   THEN [todos[i] EXCEPT !.text = trim(editForm.text),
                                         !.category = editForm.category,
                                         !.priority = editForm.priority,
                                         !.dueDate = editForm.dueDate]
                   ELSE todos[i]]
            /\ editingId' = NoId
    /\ UNCHANGED <<variant, form, editForm, fieldEditing, fieldEditValue,
                   filter, categoryFilter, sortBy, session, isSubmitting,
                   feedback, inflight, nextId,
                   calls>>

saveFieldEditing_local ==
    /\ IF fieldEditing = NoFieldEditing
       THEN UNCHANGED <<todos, fieldEditing, fieldEditValue>>
       ELSE /\ todos' = [i \in DOMAIN todos |->
                   IF todos[i].id = fieldEditing.id
                   THEN [todos[i] EXCEPT ![fieldEditing.field] = fieldEditValue]
                   ELSE todos[i]]
            /\ fieldEditing' = NoFieldEditing
            /\ fieldEditValue' = ""
    /\ UNCHANGED <<variant, form, editingId, editForm, filter, categoryFilter,
                   sortBy, session, isSubmitting, feedback, inflight, nextId,
                   calls>>

----------------------------------------------------------------------------
(* Mutations of the persisted page: the call, then its continuation *)

mapRowToTodo(row) ==
    [id |-> row.id, text |-> row.text, category |-> row.category,
     priority |-> row.priority,
     dueDate |-> IF row.due_date = NULL THEN "" ELSE row.due_date,
     completed |-> row.completed]

\* value || null
orNull(value) == IF value = "" THEN NULL ELSE value

reportError(message) == feedback' = [type |-> "error", message |-> message]

\* a remote call is issued: its record joins the calls awaiting an answer
issue(call) ==
    /\ calls < MaxCalls
    /\ calls' = calls + 1
    /\ inflight' = inflight (+) SetToBag({call})

\* the answer of a call arrives: its continuation runs once
answered(call) ==
    /\ BagIn(call, inflight)
    /\ inflight' = inflight (-) SetToBag({call})
    /\ UNCHANGED calls

\* addTodo without the test of isSubmitting
addTodo_unguarded ==
    IF ~session
    THEN /\ reportError("signInToAdd")
         /\ UNCHANGED <<variant, todos, form, editingId, editForm,
                        fieldEditing, fieldEditValue, filter, categoryFilter,
                        sortBy, session, isSubmitting, inflight, nextId,
                        calls>>
    ELSE IF trim(form.text) = <<>>
    THEN UNCHANGED pageVars
    ELSE /\ isSubmitting' = TRUE
         /\ issue([op |-> "insert",
                   payload |-> [text |-> trim(form.text),
                                category |-> form.category,
                                priority |-> form.priority,
                                due_date |-> orNull(form.dueDate),
                                completed |-> FALSE]])
         /\ UNCHANGED <<variant, todos, form, editingId, editForm,
                        fieldEditing, fieldEditValue, filter, categoryFilter,
                        sortBy, session, feedback, nextId>>

\* addTodo testing the text as typed, not trimmed, for emptiness
addTodo_untrimmedTest ==
    IF ~session
    THEN /\ reportError("signInToAdd")
         /\ UNCHANGED <<variant, todos, form, editingId, editForm,
                        fieldEditing, fieldEditValue, filter, categoryFilter,
                        sortBy, session, isSubmitting, inflight, nextId,
                        calls>>
    ELSE IF form.text = <<>> \/ isSubmitting
    THEN UNCHANGED pageVars
    ELSE /\ isSubmitting' = TRUE
         /\ issue([op |-> "insert",
                   payload |-> [text |-> trim(form.text),
                                category |-> form.category,
                                priority |-> form.priority,
                                due_date |-> orNull(form.dueDate),
                                completed |-> FALSE]])
         /\ UNCHANGED <<variant, todos, form, editingId, editForm,
                        fieldEditing, fieldEditValue, filter, categoryFilter,
                        sortBy, session, feedback, nextId>>

addTodo ==
    IF ~session
    THEN /\ reportError("signInToAdd")
         /\ UNCHANGED <<variant, todos, form, editingId, editForm,
                        fieldEditing, fieldEditValue, filter, categoryFilter,
                        sortBy, session, isSubmitting, inflight, nextId,
                   calls>>
    ELSE IF trim(form.text) = <<>> \/ isSubmitting
    THEN UNCHANGED pageVars
    ELSE /\ isSubmitting' = TRUE
         /\ issue([op |-> "insert",
                   payload |-> [text |-> trim(form.text),
                                category |-> form.category,
                                priority |-> form.priority,
                                due_date |-> orNull(form.dueDate),
                                completed |-> FALSE]])
         /\ UNCHANGED <<variant, todos, form, editingId, editForm,
                        fieldEditing, fieldEditValue, filter, categoryFilter,
                        sortBy, session, feedback, nextId>>

\* the store answers an insert with the row it created, under a new id
insertedRow(call) ==
    [id |-> nextId, text |-> call.payload.text,
     category |-> call.payload.category, priority |-> call.payload.priority,
     due_date |-> call.payload.due_date, completed |-> call.payload.completed]

\* addTodo_resolve clearing the form before it looks at the error
addTodo_resolve_resetsFirst(call, error) ==
    /\ call.op = "insert"
    /\ answered(call)
    /\ resetForm
    /\ IF error
       THEN /\ reportError("addFailed")
            /\ isSubmitting' = FALSE
            /\ UNCHANGED <<todos, nextId>>
       ELSE /\ nextId <= MaxTodos
            /\ todos' = <<mapRowToTodo(insertedRow(call))>> \o todos
            /\ nextId' = nextId + 1
            /\ feedback' = NoFeedback
            /\ isSubmitting' = FALSE
    /\ UNCHANGED <<variant, editingId, editForm, fieldEditing, fieldEditValue,
                   filter, categoryFilter, sortBy, session>>

addTodo_resolve(call, error) ==
    /\ call.op = "insert"
    /\ answered(call)
    /\ IF error
       THEN /\ reportError("addFailed")
            /\ isSubmitting' = FALSE
            /\ UNCHANGED <<todos, form, nextId>>
       ELSE /\ nextId <= MaxTodos
            /\ todos' = <<mapRowToTodo(insertedRow(call))>> \o todos
            /\ nextId' = nextId + 1
            /\ resetForm
            /\ feedback' = NoFeedback
            /\ isSubmitting' = FALSE
    /\ UNCHANGED <<variant, editingId, editForm, fieldEditing, fieldEditValue,
                   filter, categoryFilter, sortBy, session>>

\* toggleTodo flipping the task in the collection when it issues the call
toggleTodo_optimistic(id, completed) ==
    IF ~session
    THEN UNCHANGED pageVars
    ELSE /\ issue([op |-> "toggle", id |-> id, completed |-> completed])
         /\ todos' = [i \in DOMAIN todos |->
                        IF todos[i].id = id
                        THEN [todos[i] EXCEPT !.completed = ~completed]
                        ELSE todos[i]]
         /\ UNCHANGED <<variant, form, editingId, editForm,
                        fieldEditing, fieldEditValue, filter, categoryFilter,
                        sortBy, session, isSubmitting, feedback, nextId>>

toggleTodo(id, completed) ==
    IF ~session
    THEN UNCHANGED pageVars
    ELSE /\ issue([op |-> "toggle", id |-> id, completed |-> completed])
         /\ UNCHANGED <<variant, todos, form, editingId, editForm,
                        fieldEditing, fieldEditValue, filter, categoryFilter,
                        sortBy, session, isSubmitting, feedback, nextId>>

toggleTodo_resolve(call, error) ==
    /\ call.op = "toggle"
    /\ answered(call)
    /\ IF error
       THEN /\ reportError("toggleFailed")
            /\ UNCHANGED todos
       ELSE /\ todos' = [i \in DOMAIN todos |->
                   IF todos[i].id = call.id
                   THEN [todos[i] EXCEPT !.completed = ~call.completed]
                   ELSE todos[i]]
            /\ UNCHANGED feedback
    /\ UNCHANGED <<variant, form, editingId, editForm, fieldEditing,
                   fieldEditValue, filter, categoryFilter, sortBy, session,
                   isSubmitting, nextId>>

\* the continuation evaluates editingId === id on the editingId of the
\* render deleteTodo was called in
deleteTodo(id) ==
    IF ~session
    THEN UNCHANGED pageVars
    ELSE /\ issue([op |-> "delete", id |-> id, editing |-> editingId = id])
         /\ UNCHANGED <<variant, todos, form, editingId, editForm,
                        fieldEditing, fieldEditValue, filter, categoryFilter,
                        sortBy, session, isSubmitting, feedback, nextId>>

deleteTodo_resolve(call, error) ==
    /\ call.op = "delete"
    /\ answered(call)
    /\ IF error
       THEN /\ reportError("deleteFailed")
            /\ UNCHANGED <<todos, editingId>>
       ELSE /\ todos' = SelectSeq(todos, LAMBDA todo : todo.id # call.id)
            /\ editingId' = IF call.editing THEN NoId ELSE editingId
            /\ UNCHANGED feedback
    /\ UNCHANGED <<variant, form, editForm, fieldEditing, fieldEditValue,
                   filter, categoryFilter, sortBy, session, isSubmitting,
                   nextId>>

saveEditing(id) ==
    IF ~session \/ trim(editForm.text) = <<>>
    THEN UNCHANGED pageVars
    ELSE /\ issue([op |-> "update", id |-> id, editForm |-> editForm])
         /\ UNCHANGED <<variant, todos, form, editingId, editForm,
                        fieldEditing, fieldEditValue, filter, categoryFilter,
                        sortBy, session, isSubmitting, feedback, nextId>>

\* saveEditing_resolve applying the draft the page holds when the answer
\* arrives, not the one that was sent
saveEditing_resolve_currentDraft(call, error) ==
    /\ call.op = "update"
    /\ answered(call)
    /\ IF error
       THEN /\ reportError("saveFailed")
            /\ UNCHANGED <<todos, editingId>>
       ELSE /\ todos' = [i \in DOMAIN todos |->
                   IF todos[i].id = call.id
                   THEN [todos[i] EXCEPT !.text = trim(editForm.text),
                                         !.category = editForm.category,
                                         !.priority = editForm.priority,
                                         !.dueDate = editForm.dueDate]
                   ELSE todos[i]]
            /\ editingId' = NoId
            /\ UNCHANGED feedback
    /\ UNCHANGED <<variant, form, editForm, fieldEditing, fieldEditValue,
                   filter, categoryFilter, sortBy, session, isSubmitting,
                   nextId>>

saveEditing_resolve(call, error) ==
    /\ call.op = "update"
    /\ answered(call)
    /\ IF error
       THEN /\ reportError("saveFailed")
            /\ UNCHANGED <<todos, editingId>>
       ELSE /\ todos' = [i \in DOMAIN todos |->
                   IF todos[i].id = call.id
                   THEN [todos[i] EXCEPT !.text = trim(call.editForm.text),
                                         !.category = call.editForm.category,
                                         !.priority = call.editForm.priority,
                                         !.dueDate = call.editForm.dueDate]
                   ELSE todos[i]]
            /\ editingId' = NoId
            /\ UNCHANGED feedback
    /\ UNCHANGED <<variant, form, editForm, fieldEditing, fieldEditValue,
                   filter, categoryFilter, sortBy, session, isSubmitting,
                   nextId>>

saveFieldEditing ==
    IF fieldEditing = NoFieldEditing \/ ~session
    THEN UNCHANGED pageVars
    ELSE /\ issue([op |-> "updateField", id |-> fieldEditing.id,
                   field |-> fieldEditing.field, value |-> fieldEditValue])
         /\ UNCHANGED <<variant, todos, form, editingId, editForm,
                        fieldEditing, fieldEditValue, filter, categoryFilter,
                        sortBy, session, isSubmitting, feedback, nextId>>

\* saveFieldEditing_resolve applying the value the editor holds when the
\* answer arrives, not the one that was sent
saveFieldEditing_resolve_currentValue(call, error) ==
    /\ call.op = "updateField"
    /\ answered(call)
    /\ IF error
       THEN /\ reportError("fieldFailed")
            /\ UNCHANGED <<todos, fieldEditing, fieldEditValue>>
       ELSE /\ todos' = [i \in DOMAIN todos |->
                   IF todos[i].id = call.id
                   THEN [todos[i] EXCEPT ![call.field] = fieldEditValue]
                   ELSE todos[i]]
            /\ fieldEditing' = NoFieldEditing
            /\ fieldEditValue' = ""
            /\ UNCHANGED feedback
    /\ UNCHANGED <<variant, form, editingId, editForm, filter, categoryFilter,
                   sortBy, session, isSubmitting, nextId>>

saveFieldEditing_resolve(call, error) ==
    /\ call.op = "updateField"
    /\ answered(call)
    /\ IF error
       THEN /\ reportError("fieldFailed")
            /\ UNCHANGED <<todos, fieldEditing, fieldEditValue>>
       ELSE /\ todos' = [i \in DOMAIN todos |->
                   IF todos[i].id = call.id
                   THEN [todos[i] EXCEPT ![call.field] = call.value]
                   ELSE todos[i]]
            /\ fieldEditing' = NoFieldEditing
            /\ fieldEditValue' = ""
            /\ UNCHANGED feedback
    /\ UNCHANGED <<variant, form, editingId, editForm, filter, categoryFilter,
                   sortBy, session, isSubmitting, nextId>>

dismissFeedback ==
    /\ feedback' = NoFeedback
    /\ UNCHANGED <<variant, todos, form, editingId, editForm, fieldEditing,
                   fieldEditValue, filter, categoryFilter, sortBy, session,
                   isSubmitting, inflight, nextId,
                   calls>>

----------------------------------------------------------------------------
(* The page: which control is rendered decides which handler can run *)

\* the persisted page renders the sign-in form alone while there is no session
PageShown == variant = "local" \/ session

\* the inline editor of a field is rendered in the row of fieldEditing.id
FieldEditorShown == \E todo \in Shown : fieldEditing.id = todo.id

\* history: a handler that has early returns ran
ran(handler) ==
    /\ ignored' = IF pageVars' = pageVars THEN handler ELSE "none"
    /\ UNCHANGED picked
    /\ UNCHANGED sessionVars
    /\ UNCHANGED <<trail, succeeded>>

\* history: any other handler or continuation ran
other ==
    /\ ignored' = "none"
    /\ UNCHANGED picked
    /\ UNCHANGED sessionVars
    /\ UNCHANGED <<trail, succeeded>>

toggled(id) == toggles' = [toggles EXCEPT ![id] = ~toggles[id]]

CreateInput ==
    /\ PageShown
    /\ \E input \in CreateInputs :
         handleCreateChange(input.field, input.value)
    /\ other
    /\ UNCHANGED toggles

\* the add button, or Enter in the text input, which is never disabled
AddSubmit ==
    /\ PageShown
    /\ IF variant = "local" THEN addTodo_local ELSE addTodo
    /\ ran("addTodo")
    /\ UNCHANGED toggles

RowCheckbox ==
    /\ PageShown
    /\ \E todo \in Shown :
         IF variant = "local"
         THEN toggleTodo_local(todo.id) /\ toggled(todo.id)
         ELSE toggleTodo(todo.id, todo.completed) /\ UNCHANGED toggles
    /\ other

\* a row shows its edit and delete buttons while it is not under full-row edit
RowEditButton ==
    /\ PageShown
    /\ picked.editor \in {"row", "both"}
    /\ \E todo \in Shown :
         /\ editingId # todo.id
         /\ startEditing(todo)
    /\ other
    /\ UNCHANGED toggles

RowDeleteButton ==
    /\ PageShown
    /\ \E todo \in Shown :
         /\ editingId # todo.id
         /\ IF variant = "local"
            THEN deleteTodo_local(todo.id) ELSE deleteTodo(todo.id)
    /\ other
    /\ UNCHANGED toggles

\* the row under full-row edit shows the draft inputs, cancel and save
RowEditInput ==
    /\ PageShown
    /\ \E todo \in Shown : editingId = todo.id
    /\ \E input \in EditInputs : handleEditChange(input.field, input.value)
    /\ other
    /\ UNCHANGED toggles

RowCancelButton ==
    /\ PageShown
    /\ \E todo \in Shown : editingId = todo.id
    /\ cancelEditing
    /\ other
    /\ UNCHANGED toggles

RowSaveButton ==
    /\ PageShown
    /\ \E todo \in Shown :
         /\ editingId = todo.id
         /\ IF variant = "local"
            THEN saveEditing_local(todo.id) ELSE saveEditing(todo.id)
    /\ ran("saveEditing")
    /\ UNCHANGED toggles

\* FieldButton with the button of a field never disabled
FieldButton_neverDisabled ==
    /\ PageShown
    /\ picked.editor \in {"inline", "both"}
    /\ \E todo \in Shown : \E field \in FieldKeys \cap {picked.field} :
         /\ ~(fieldEditing.id = todo.id /\ fieldEditing.field = field)
         /\ startFieldEditing(todo, field)
    /\ other
    /\ UNCHANGED toggles

\* a field's button is rendered while that field is not under edit, and is
\* disabled while its row is under full-row edit
FieldButton ==
    /\ PageShown
    /\ picked.editor \in {"inline", "both"}
    /\ \E todo \in Shown : \E field \in FieldKeys \cap {picked.field} :
         /\ ~(fieldEditing.id = todo.id /\ fieldEditing.field = field)
         /\ editingId # todo.id
         /\ startFieldEditing(todo, field)
    /\ other
    /\ UNCHANGED toggles

FieldInput ==
    /\ PageShown
    /\ FieldEditorShown
    /\ \E value \in FieldValueInputs : setFieldEditValue(value)
    /\ other
    /\ UNCHANGED toggles

FieldCancelButton ==
    /\ PageShown
    /\ FieldEditorShown
    /\ cancelFieldEditing
    /\ other
    /\ UNCHANGED toggles

FieldSaveButton ==
    /\ PageShown
    /\ FieldEditorShown
    /\ IF variant = "local" THEN saveFieldEditing_local ELSE saveFieldEditing
    /\ other
    /\ UNCHANGED toggles

FeedbackDismiss ==
    /\ variant = "persisted"
    /\ session
    /\ feedback # NoFeedback
    /\ dismissFeedback
    /\ other
    /\ UNCHANGED toggles

StatusSelect ==
    /\ PageShown
    /\ \E value \in FilterTypes : setFilter(value)
    /\ other
    /\ UNCHANGED toggles

CategorySelect ==
    /\ PageShown
    /\ \E value \in {"all"} \cup Categories : setCategoryFilter(value)
    /\ other
    /\ UNCHANGED toggles

SortSelect ==
    /\ PageShown
    /\ \E value \in SortTypes : setSortBy(value)
    /\ other
    /\ UNCHANGED toggles

----------------------------------------------------------------------------
(* The remote store answers a call, with an error or without *)

InsertAnswer ==
    \E call \in BagToSet(inflight) : \E error \in BOOLEAN :
        /\ addTodo_resolve(call, error)
        /\ other
        /\ UNCHANGED toggles

ToggleAnswer ==
    \E call \in BagToSet(inflight) : \E error \in BOOLEAN :
        /\ toggleTodo_resolve(call, error)
        /\ other
        /\ IF error \/ call.id \notin TodoIds
           THEN UNCHANGED toggles ELSE toggled(call.id)

DeleteAnswer ==
    \E call \in BagToSet(inflight) : \E error \in BOOLEAN :
        /\ deleteTodo_resolve(call, error)
        /\ other
        /\ UNCHANGED toggles

UpdateAnswer ==
    \E call \in BagToSet(inflight) : \E error \in BOOLEAN :
        /\ saveEditing_resolve(call, error)
        /\ other
        /\ UNCHANGED toggles

UpdateFieldAnswer ==
    \E call \in BagToSet(inflight) : \E error \in BOOLEAN :
        /\ saveFieldEditing_resolve(call, error)
        /\ other
        /\ UNCHANGED toggles

----------------------------------------------------------------------------
(* Spec: the mutation layer of both pages.  The local page starts empty.   *)
(* The persisted page starts signed in, its first fetch answered: todos is *)
(* what the store held, newest first.  The user leaves the filter and sort *)
(* selectors alone.                                                        *)

\* the row of the task created n-th, as a user who changed nothing stored it
storedRow(n) ==
    [id |-> n, text |-> <<"a">>, category |-> categoryOptions[1],
     priority |-> "medium", due_date |-> NULL, completed |-> FALSE]

\* select("*").order("created_at", { ascending: false }) on a store of n rows
fetched(n) == [i \in 1..n |-> mapRowToTodo(storedRow(n + 1 - i))]

InitControls ==
    /\ form = emptyForm
    /\ editingId = NoId
    /\ editForm = emptyForm
    /\ fieldEditing = NoFieldEditing
    /\ fieldEditValue = ""
    /\ filter = "all"
    /\ categoryFilter = "all"
    /\ sortBy = "date"
    /\ isSubmitting = FALSE
    /\ feedback = NoFeedback
    /\ authLoading = FALSE
    /\ authEmail = ""
    /\ authPassword = ""
    /\ answers = EmptyBag
    /\ trail = <<>>
    /\ succeeded = TRUE
    /\ ignored = "none"
    /\ toggles = [id \in 1..MaxTodos \cup TodoIds |-> FALSE]

\* the page with no call under way and its collection loaded
InitPage ==
    /\ InitControls
    /\ isLoading = FALSE
    /\ inflight = EmptyBag
    /\ calls = 0
    /\ remote = <<>>

InitLocal ==
    /\ variant = "local"
    /\ session = FALSE
    /\ todos = <<>>
    /\ nextId = 1

\* the store of this model holds no task or one when the page is opened
StoredCounts == {0, 1}

InitPersisted ==
    /\ variant = "persisted"
    /\ session = TRUE
    /\ \E n \in StoredCounts :
         /\ todos = fetched(n)
         /\ nextId = n + 1

Init ==
    /\ InitLocal \/ InitPersisted
    /\ InitPage
    /\ picked \in Picks

Next ==
    \/ CreateInput
    \/ AddSubmit
    \/ RowCheckbox
    \/ RowEditButton
    \/ RowDeleteButton
    \/ RowEditInput
    \/ RowCancelButton
    \/ RowSaveButton
    \/ FieldButton
    \/ FieldInput
    \/ FieldCancelButton
    \/ FieldSaveButton
    \/ FeedbackDismiss
    \/ InsertAnswer
    \/ ToggleAnswer
    \/ DeleteAnswer
    \/ UpdateAnswer
    \/ UpdateFieldAnswer

Spec == Init /\ [][Next]_vars

----------------------------------------------------------------------------
(* SpecView: the derived view.  The page holds any collection of at most   *)
(* MaxViewLen tasks, of any categories and completion, and the user works  *)
(* the status filter, the category filter and the sort selector.           *)

viewTexts == <<<<"c">>, <<"a">>, <<"b">>>>
viewPriorities == <<"low", "high", "medium">>
viewDates == <<"", "2024-01-10", "2024-01-05">>

\* the task at position i: its sort keys go round the three of the lists above
viewTask(i, category, completed) ==
    [id |-> i, text |-> viewTexts[((i - 1) % 3) + 1], category |-> category,
     priority |-> viewPriorities[((i - 1) % 3) + 1],
     dueDate |-> viewDates[((i - 1) % 3) + 1], completed |-> completed]

ViewCollections ==
    UNION {{[i \in 1..n |-> viewTask(i, cs[i], ds[i])] :
              cs \in [1..n -> Categories], ds \in [1..n -> BOOLEAN]} :
           n \in 0..MaxViewLen}

InitView ==
    /\ variant \in {"local", "persisted"}
    /\ session = (variant = "persisted")
    /\ todos \in ViewCollections
    /\ nextId = Len(todos) + 1
    /\ InitPage
    /\ picked = [editor |-> "row", field |-> "text", value |-> <<"b", " ">>]

NextView ==
    \/ StatusSelect
    \/ CategorySelect
    \/ SortSelect

SpecView == InitView /\ [][NextView]_vars

----------------------------------------------------------------------------
(* SpecRows: the rows of a page that holds RowsHeld tasks, the local page  *)
(* after that many creates, the persisted page after its fetch.  The user  *)
(* ticks checkboxes, deletes rows, opens and closes the two editors, and   *)
(* the store answers; the create form and the drafts are left alone.       *)

\* the collection of the local page after n creates of a user who changed
\* nothing in the form: oldest first
created(n) ==
    [i \in 1..n |->
        [id |-> i, text |-> <<"a">>, category |-> emptyForm.category,
         priority |-> emptyForm.priority, dueDate |-> emptyForm.dueDate,
         completed |-> FALSE]]

\* the user of the rows works one of the two editors, or both
RowPicks ==
    Picks \cup {[editor |-> "both", field |-> c.field, value |-> c.value] :
                   c \in Changes}

InitRows ==
    /\ \/ variant = "local" /\ session = FALSE /\ todos = created(RowsHeld)
       \/ variant = "persisted" /\ session = TRUE /\ todos = fetched(RowsHeld)
    /\ nextId = RowsHeld + 1
    /\ InitPage
    /\ picked \in RowPicks

NextRows ==
    \/ RowCheckbox
    \/ RowEditButton
    \/ RowDeleteButton
    \/ RowCancelButton
    \/ FieldButton
    \/ FieldCancelButton
    \/ ToggleAnswer
    \/ DeleteAnswer

SpecRows == InitRows /\ [][NextRows]_vars

----------------------------------------------------------------------------
(* The session of the persisted page: the sign-in form, sign-out, the      *)
(* effect that follows the session, and the fetch of the collection.  A    *)
(* call is served by the provider or the store, which puts its answer on   *)
(* the way, and the awaiting handler continues when the answer arrives.    *)

AuthModes == {"signin", "signup"}

\* what the provider answers to a sign-in or a sign-up: no error, or an
\* error whose message holds one of the texts the handler looks for, or
\* another error
AuthOutcomes ==
    {"ok", "password", "already registered", "email not confirmed",
     "invalid login credentials"}

answerOf(call, error, data) == [call |-> call, error |-> error, data |-> data]

\* the call leaves the calls awaiting service, its answer is on the way
served(call, error, data) ==
    /\ BagIn(call, inflight)
    /\ answers' = answers (+) SetToBag({answerOf(call, error, data)})

\* the answer reaches the handler that awaits it
delivered(answer) ==
    /\ BagIn(answer, answers)
    /\ answers' = answers (-) SetToBag({answer})

setAuthEmail(value) ==
    /\ authEmail' = value
    /\ UNCHANGED <<pageVars, isLoading, authLoading, authPassword, remote,
                   answers>>

setAuthPassword(value) ==
    /\ authPassword' = value
    /\ UNCHANGED <<pageVars, isLoading, authLoading, authEmail, remote,
                   answers>>

\* fetchTodos up to its await; waiting holds the other calls awaiting service
fetchTodos(waiting) ==
    /\ isLoading' = TRUE
    /\ calls < MaxCalls
    /\ calls' = calls + 1
    /\ inflight' = waiting (+) SetToBag({[op |-> "fetch"]})

\* the effect on session run for a session that went away, which keeps the
\* collection
sessionEffect_keepsTodos(has, waiting) ==
    IF has
    THEN fetchTodos(waiting) /\ UNCHANGED todos
    ELSE /\ isLoading' = FALSE
         /\ inflight' = waiting
         /\ UNCHANGED <<todos, calls>>

\* the effect on session: it fetches the collection of a session, it empties
\* the collection when there is none
sessionEffect(has, waiting) ==
    IF has
    THEN fetchTodos(waiting) /\ UNCHANGED todos
    ELSE /\ todos' = <<>>
         /\ isLoading' = FALSE
         /\ inflight' = waiting
         /\ UNCHANGED calls

\* setSession with the effect it triggers.  Every session the provider hands
\* over is a new object, so the effect runs for it; null after null is no
\* change of state and the effect does not run.
setSession(has, waiting) ==
    /\ session' = has
    /\ IF has \/ session
       THEN sessionEffect(has, waiting)
       ELSE /\ inflight' = waiting
            /\ UNCHANGED <<todos, isLoading, calls>>

\* getSession().then(({ data }) => setSession(data.session))
getSession_resolve(call, has) ==
    /\ call.op = "getSession"
    /\ BagIn(call, inflight)
    /\ setSession(has, inflight (-) SetToBag({call}))
    /\ UNCHANGED <<variant, form, editingId, editForm, fieldEditing,
                   fieldEditValue, filter, categoryFilter, sortBy,
                   isSubmitting, feedback, nextId>>
    /\ UNCHANGED <<authLoading, authEmail, authPassword, remote, answers>>

\* onAuthStateChange((_event, newSession) => setSession(newSession)) for a
\* change that no call of this page asked for: the session expired, or the
\* provider renewed it
onAuthStateChange(has) ==
    /\ has \/ session
    /\ setSession(has, inflight)
    /\ UNCHANGED <<variant, form, editingId, editForm, fieldEditing,
                   fieldEditValue, filter, categoryFilter, sortBy,
                   isSubmitting, feedback, nextId>>
    /\ UNCHANGED <<authLoading, authEmail, authPassword, remote, answers>>

\* handleAuth up to its await
handleAuth(mode) ==
    IF authEmail = "" \/ authPassword = ""
    THEN /\ reportError("credentialsMissing")
         /\ UNCHANGED <<variant, todos, form, editingId, editForm,
                        fieldEditing, fieldEditValue, filter, categoryFilter,
                        sortBy, session, isSubmitting, inflight, nextId,
                        calls>>
         /\ UNCHANGED sessionVars
    ELSE /\ authLoading' = TRUE
         /\ issue([op |-> mode])
         /\ UNCHANGED <<variant, todos, form, editingId, editForm,
                        fieldEditing, fieldEditValue, filter, categoryFilter,
                        sortBy, session, isSubmitting, feedback, nextId>>
         /\ UNCHANGED <<isLoading, authEmail, authPassword, remote, answers>>

\* the provider serves a sign-in or a sign-up.  A sign-in without error
\* starts a session and the listener of the page is told; a sign-up without
\* error starts none, the address is to be confirmed first.
signInOrUp_serve(call, outcome) ==
    /\ call.op \in AuthModes
    /\ served(call, IF outcome = "ok" THEN "" ELSE outcome, <<>>)
    /\ IF outcome = "ok" /\ call.op = "signin"
       THEN setSession(TRUE, inflight (-) SetToBag({call}))
       ELSE /\ inflight' = inflight (-) SetToBag({call})
            /\ UNCHANGED <<todos, session, isLoading, calls>>
    /\ UNCHANGED <<variant, form, editingId, editForm, fieldEditing,
                   fieldEditValue, filter, categoryFilter, sortBy,
                   isSubmitting, feedback, nextId>>
    /\ UNCHANGED <<authLoading, authEmail, authPassword, remote>>

\* the message handleAuth reports for an error of the provider
authErrorMessage(mode, error) ==
    IF mode = "signup" /\ error = "password" THEN "weakPassword"
    ELSE IF mode = "signup" /\ error = "already registered"
    THEN "alreadyRegistered"
    ELSE IF mode = "signin" /\ error = "email not confirmed"
    THEN "emailNotConfirmed"
    ELSE IF mode = "signin" THEN "signInFailed"
    ELSE "signUpFailed"

\* handleAuth reporting every answer as a success
handleAuth_resolve_ignoresError(answer) ==
    /\ answer.call.op \in AuthModes
    /\ delivered(answer)
    /\ authLoading' = FALSE
    /\ feedback' = [type |-> "success",
                    message |-> IF answer.call.op = "signin"
                                THEN "signedIn" ELSE "signedUp"]
    /\ UNCHANGED <<variant, todos, form, editingId, editForm, fieldEditing,
                   fieldEditValue, filter, categoryFilter, sortBy, session,
                   isSubmitting, inflight, nextId, calls>>
    /\ UNCHANGED <<isLoading, authEmail, authPassword, remote>>

\* handleAuth after its await
handleAuth_resolve(answer) ==
    /\ answer.call.op \in AuthModes
    /\ delivered(answer)
    /\ authLoading' = FALSE
    /\ IF answer.error # ""
       THEN reportError(authErrorMessage(answer.call.op, answer.error))
       ELSE feedback' = [type |-> "success",
                         message |-> IF answer.call.op = "signin"
                                     THEN "signedIn" ELSE "signedUp"]
    /\ UNCHANGED <<variant, todos, form, editingId, editForm, fieldEditing,
                   fieldEditValue, filter, categoryFilter, sortBy, session,
                   isSubmitting, inflight, nextId, calls>>
    /\ UNCHANGED <<isLoading, authEmail, authPassword, remote>>

\* handleSignOut up to its await
handleSignOut ==
    /\ issue([op |-> "signout"])
    /\ UNCHANGED <<variant, todos, form, editingId, editForm, fieldEditing,
                   fieldEditValue, filter, categoryFilter, sortBy, session,
                   isSubmitting, feedback, nextId>>
    /\ UNCHANGED sessionVars

\* the provider serves a sign-out: without error it ends the session and the
\* listener of the page is told, with an error the session stays
signOut_serve(call, error) ==
    /\ call.op = "signout"
    /\ served(call, IF error THEN "failed" ELSE "", <<>>)
    /\ IF error
       THEN /\ inflight' = inflight (-) SetToBag({call})
            /\ UNCHANGED <<todos, session, isLoading, calls>>
       ELSE setSession(FALSE, inflight (-) SetToBag({call}))
    /\ UNCHANGED <<variant, form, editingId, editForm, fieldEditing,
                   fieldEditValue, filter, categoryFilter, sortBy,
                   isSubmitting, feedback, nextId>>
    /\ UNCHANGED <<authLoading, authEmail, authPassword, remote>>

\* handleSignOut after its await: it does not look at the answer
handleSignOut_resolve(answer) ==
    /\ answer.call.op = "signout"
    /\ delivered(answer)
    /\ todos' = <<>>
    /\ feedback' = [type |-> "success", message |-> "signedOut"]
    /\ UNCHANGED <<variant, form, editingId, editForm, fieldEditing,
                   fieldEditValue, filter, categoryFilter, sortBy, session,
                   isSubmitting, inflight, nextId, calls>>
    /\ UNCHANGED <<isLoading, authLoading, authEmail, authPassword, remote>>

\* the store serves select("*").order("created_at", { ascending: false })
fetchTodos_serve(call, error) ==
    /\ call.op = "fetch"
    /\ served(call, IF error THEN "failed" ELSE "",
              IF error THEN <<>> ELSE remote)
    /\ inflight' = inflight (-) SetToBag({call})
    /\ UNCHANGED <<variant, todos, form, editingId, editForm, fieldEditing,
                   fieldEditValue, filter, categoryFilter, sortBy, session,
                   isSubmitting, feedback, nextId, calls>>
    /\ UNCHANGED <<isLoading, authLoading, authEmail, authPassword, remote>>

\* fetchTodos returning on an error without setIsLoading(false)
fetchTodos_resolve_errorKeepsLoading(answer) ==
    /\ answer.call.op = "fetch"
    /\ delivered(answer)
    /\ IF answer.error # ""
       THEN /\ reportError("fetchFailed")
            /\ UNCHANGED <<todos, isLoading>>
       ELSE /\ todos' = [i \in DOMAIN answer.data |->
                            mapRowToTodo(answer.data[i])]
            /\ feedback' = NoFeedback
            /\ isLoading' = FALSE
    /\ UNCHANGED <<variant, form, editingId, editForm, fieldEditing,
                   fieldEditValue, filter, categoryFilter, sortBy, session,
                   isSubmitting, inflight, nextId, calls>>
    /\ UNCHANGED <<authLoading, authEmail, authPassword, remote>>

\* fetchTodos after its await
fetchTodos_resolve(answer) ==
    /\ answer.call.op = "fetch"
    /\ delivered(answer)
    /\ IF answer.error # ""
       THEN /\ reportError("fetchFailed")
            /\ UNCHANGED todos
       ELSE /\ todos' = [i \in DOMAIN answer.data |->
                            mapRowToTodo(answer.data[i])]
            /\ feedback' = NoFeedback
    /\ isLoading' = FALSE
    /\ UNCHANGED <<variant, form, editingId, editForm, fieldEditing,
                   fieldEditValue, filter, categoryFilter, sortBy, session,
                   isSubmitting, inflight, nextId, calls>>
    /\ UNCHANGED <<authLoading, authEmail, authPassword, remote>>

\* the store serves insert(...).select().single(): the row it creates is
\* the newest it holds
addTodo_serve(call, error) ==
    /\ call.op = "insert"
    /\ inflight' = inflight (-) SetToBag({call})
    /\ IF error
       THEN /\ served(call, "failed", <<>>)
            /\ UNCHANGED <<remote, nextId>>
       ELSE /\ nextId <= MaxTodos
            /\ served(call, "", <<insertedRow(call)>>)
            /\ remote' = <<insertedRow(call)>> \o remote
            /\ nextId' = nextId + 1
    /\ UNCHANGED <<variant, todos, form, editingId, editForm, fieldEditing,
                   fieldEditValue, filter, categoryFilter, sortBy, session,
                   isSubmitting, feedback, calls>>
    /\ UNCHANGED <<isLoading, authLoading, authEmail, authPassword>>

\* addTodo after its await, the answer being on its own way
addTodo_continue(answer) ==
    /\ answer.call.op = "insert"
    /\ delivered(answer)
    /\ IF answer.error # ""
       THEN /\ reportError("addFailed")
            /\ isSubmitting' = FALSE
            /\ UNCHANGED <<todos, form>>
       ELSE /\ todos' = <<mapRowToTodo(answer.data[1])>> \o todos
            /\ resetForm
            /\ feedback' = NoFeedback
            /\ isSubmitting' = FALSE
    /\ UNCHANGED <<variant, editingId, editForm, fieldEditing, fieldEditValue,
                   filter, categoryFilter, sortBy, session, inflight, nextId,
                   calls>>
    /\ UNCHANGED <<isLoading, authLoading, authEmail, authPassword, remote>>

\* history: a handler or a continuation of the session layer ran
noted ==
    /\ ignored' = "none"
    /\ UNCHANGED <<picked, toggles, trail, succeeded>>

\* history: the provider or the store served a call, with an error or not
notedServed(failed) ==
    /\ ignored' = "none"
    /\ UNCHANGED <<picked, toggles, trail>>
    /\ succeeded' = (succeeded /\ ~failed)

\* the sign-in form is rendered while there is no session
AuthFormShown == variant = "persisted" /\ ~session

SessionQueryAnswer ==
    \E call \in BagToSet(inflight) : \E has \in BOOLEAN :
        getSession_resolve(call, has) /\ noted

ProviderNotice ==
    \E has \in BOOLEAN : onAuthStateChange(has) /\ noted

AuthInput ==
    /\ AuthFormShown
    /\ setAuthEmail("user@mail") \/ setAuthPassword("secret")
    /\ noted

\* the button of the form, disabled while authLoading, or Enter in the
\* password input, which is never disabled; the mode is the user's choice
AuthSubmit ==
    /\ AuthFormShown
    /\ \E mode \in AuthModes : handleAuth(mode)
    /\ noted

SignOutButton ==
    /\ variant = "persisted" /\ session
    /\ handleSignOut
    /\ noted

AuthServed ==
    \E call \in BagToSet(inflight) : \E outcome \in AuthOutcomes :
        signInOrUp_serve(call, outcome) /\ notedServed(outcome # "ok")

AuthAnswer ==
    \E answer \in BagToSet(answers) : handleAuth_resolve(answer) /\ noted

SignOutServed ==
    \E call \in BagToSet(inflight) : \E error \in BOOLEAN :
        signOut_serve(call, error) /\ notedServed(error)

SignOutAnswer ==
    \E answer \in BagToSet(answers) : handleSignOut_resolve(answer) /\ noted

FetchServed ==
    \E call \in BagToSet(inflight) : \E error \in BOOLEAN :
        fetchTodos_serve(call, error) /\ notedServed(error)

FetchAnswer ==
    \E answer \in BagToSet(answers) : fetchTodos_resolve(answer) /\ noted

InsertServed ==
    \E call \in BagToSet(inflight) : \E error \in BOOLEAN :
        addTodo_serve(call, error) /\ notedServed(error)

InsertDelivered ==
    \E answer \in BagToSet(answers) : addTodo_continue(answer) /\ noted

----------------------------------------------------------------------------
(* SpecSession: the persisted page from its mount.  The first run of the   *)
(* effect found no session and getSession is awaiting its answer; the      *)
(* store holds what StoredCounts says.  The user works the sign-in form,   *)
(* the sign-out button and the create form.                                *)

\* the rows the store holds, newest first, when it holds n of them
stored(n) == [i \in 1..n |-> storedRow(n + 1 - i)]

InitSession ==
    /\ variant = "persisted"
    /\ session = FALSE
    /\ todos = <<>>
    /\ isLoading = FALSE
    /\ inflight = SetToBag({[op |-> "getSession"]})
    /\ calls = 0
    /\ \E n \in StoredCounts :
         /\ remote = stored(n)
         /\ nextId = n + 1
    /\ InitControls
    /\ picked = [editor |-> "row", field |-> "text", value |-> <<"b", " ">>]

NextSession ==
    \/ SessionQueryAnswer
    \/ ProviderNotice
    \/ AuthInput
    \/ AuthSubmit
    \/ SignOutButton
    \/ CreateInput
    \/ AddSubmit
    \/ AuthServed
    \/ AuthAnswer
    \/ SignOutServed
    \/ SignOutAnswer
    \/ FetchServed
    \/ FetchAnswer
    \/ InsertServed
    \/ InsertDelivered

SpecSession == InitSession /\ [][NextSession]_vars

----------------------------------------------------------------------------
(* SpecOrder: the order of completions.  The persisted page holds RowsHeld *)
(* fetched tasks; the user ticks checkboxes and saves single fields, the   *)
(* store answers each call when it is done with it, and the history keeps  *)
(* the order in which the calls were triggered.                            *)

\* the sequence without its first entry equal to x
removeFirst(seq, x) ==
    LET i == CHOOSE k \in DOMAIN seq :
                 seq[k] = x /\ \A j \in 1..(k - 1) : seq[j] # x
    IN  SubSeq(seq, 1, i - 1) \o SubSeq(seq, i + 1, Len(seq))

\* history: a handler or a continuation ran; a call it issued joins the
\* trail, a call it was the answer of leaves it
tracked ==
    /\ ignored' = "none"
    /\ UNCHANGED <<picked, sessionVars, succeeded>>
    /\ trail' =
         IF \E call \in BagToSet(inflight') :
                inflight' = inflight (+) SetToBag({call})
         THEN Append(trail, CHOOSE call \in BagToSet(inflight') :
                                inflight' = inflight (+) SetToBag({call}))
         ELSE IF \E call \in BagToSet(inflight) :
                inflight' = inflight (-) SetToBag({call})
         THEN removeFirst(trail, CHOOSE call \in BagToSet(inflight) :
                                     inflight' = inflight (-) SetToBag({call}))
         ELSE trail

OrderCheckbox ==
    /\ PageShown
    /\ \E todo \in Shown : toggleTodo(todo.id, todo.completed)
    /\ tracked
    /\ UNCHANGED toggles

OrderFieldButton ==
    /\ PageShown
    /\ \E todo \in Shown : \E field \in FieldKeys \cap {picked.field} :
         /\ ~(fieldEditing.id = todo.id /\ fieldEditing.field = field)
         /\ editingId # todo.id
         /\ startFieldEditing(todo, field)
    /\ tracked
    /\ UNCHANGED toggles

OrderFieldSaveButton ==
    /\ PageShown
    /\ FieldEditorShown
    /\ saveFieldEditing
    /\ tracked
    /\ UNCHANGED toggles

OrderToggleAnswer ==
    \E call \in BagToSet(inflight) : \E error \in BOOLEAN :
        /\ toggleTodo_resolve(call, error)
        /\ tracked
        /\ IF error \/ call.id \notin TodoIds
           THEN UNCHANGED toggles ELSE toggled(call.id)

OrderUpdateFieldAnswer ==
    \E call \in BagToSet(inflight) : \E error \in BOOLEAN :
        /\ saveFieldEditing_resolve(call, error)
        /\ tracked
        /\ UNCHANGED toggles

InitOrder ==
    /\ variant = "persisted"
    /\ session = TRUE
    /\ todos = fetched(RowsHeld)
    /\ nextId = RowsHeld + 1
    /\ InitPage
    /\ picked \in {pick \in Picks : pick.editor = "inline"}

NextOrder ==
    \/ OrderCheckbox
    \/ OrderFieldButton
    \/ OrderFieldSaveButton
    \/ OrderToggleAnswer
    \/ OrderUpdateFieldAnswer

SpecOrder == InitOrder /\ [][NextOrder]_vars

----------------------------------------------------------------------------
(* Vocabulary of the properties *)

\* the call whose answer this step delivers, the call this step issues
Answered(call) ==
    BagIn(call, inflight) /\ inflight' = inflight (-) SetToBag({call})
Issued(call) == inflight' = inflight (+) SetToBag({call})

\* this step adds one task of these fields to the collection and leaves
\* every task the collection held in it, as it was
Created(text, category, priority, dueDate) ==
    /\ Len(todos') = Len(todos) + 1
    /\ \A i \in DOMAIN todos : \E j \in DOMAIN todos' : todos'[j] = todos[i]
    /\ \E j \in DOMAIN todos' :
         /\ todos'[j].id \notin TodoIds
         /\ todos'[j].text = text
         /\ todos'[j].category = category
         /\ todos'[j].priority = priority
         /\ todos'[j].dueDate = dueDate
         /\ todos'[j].completed = FALSE

----------------------------------------------------------------------------
(* C1 *)

\* C1: a create whose text is not blank and which succeeds adds exactly one
\* task: its text is the form's text trimmed, its category, priority and due
\* date are the form's, it is not completed, and every task the collection
\* held is still in it, unchanged.  On the local page the submit is the
\* create; on the persisted page the submit sends the form's values to the
\* store and the store's success adds the task of the values it was sent.
C1_CreateAddsOneTask ==
    [][/\ (variant = "local" /\ AddSubmit /\ trim(form.text) # <<>>)
          => Created(trim(form.text), form.category, form.priority,
                     form.dueDate)
       /\ (variant = "persisted" /\ AddSubmit /\ trim(form.text) # <<>>
             /\ ~isSubmitting)
          => \E call \in BagToSet(inflight') :
               /\ Issued(call)
               /\ call.op = "insert"
               /\ call.payload.text = trim(form.text)
               /\ call.payload.category = form.category
               /\ call.payload.priority = form.priority
               /\ call.payload.due_date
                    = (IF form.dueDate = "" THEN NULL ELSE form.dueDate)
               /\ todos' = todos
       /\ \A call \in BagToSet(inflight) :
            addTodo_resolve(call, FALSE)
            => Created(call.payload.text, call.payload.category,
                       call.payload.priority,
                       IF call.payload.due_date = NULL
                       THEN "" ELSE call.payload.due_date)
      ]_vars

\* the persisted page after its one call, a create, succeeded: the task of
\* the trimmed text and of the due date picked in the form heads the
\* collection, in front of the task the store already held
C1_Witness ==
    /\ variant = "persisted"
    /\ calls = 1
    /\ inflight = EmptyBag
    /\ Len(todos) = 2
    /\ todos[1].text = <<"a">>
    /\ todos[1].dueDate = "2024-01-05"
    /\ ~todos[1].completed
    /\ todos[2] = fetched(1)[1]
    /\ form = emptyForm

----------------------------------------------------------------------------
(* C2 *)

\* C2: a create whose text is empty or only whitespace changes nothing: the
\* collection is as it was and, on the persisted page, no call is issued, no
\* feedback is set and the in-flight flag is not raised.
C2_BlankCreateIsNoOp ==
    [][(AddSubmit /\ trim(form.text) = <<>>)
       => /\ todos' = todos
          /\ form' = form
          /\ inflight' = inflight
          /\ calls' = calls
          /\ feedback' = feedback
          /\ isSubmitting' = isSubmitting
      ]_vars

\* the persisted page just after a submit of a whitespace-only text, which
\* did nothing although no create was in flight
C2_Witness ==
    /\ variant = "persisted"
    /\ ignored = "addTodo"
    /\ form.text = <<" ">>
    /\ ~isSubmitting
    /\ calls = 0
    /\ todos # <<>>

----------------------------------------------------------------------------
(* C3 *)

\* C3: toggling is its own inverse: whenever an even number of toggles of a
\* task have taken effect, two toggles that both succeeded among them, the
\* task's completed is what it was before the first of them, which for every
\* task of these runs is false; on the persisted page also when the second
\* toggle is triggered before the first is answered.
C3_ToggleTwiceRestores ==
    \A i \in DOMAIN todos : ~toggles[todos[i].id] => ~todos[i].completed

----------------------------------------------------------------------------
(* C4 *)

\* this step takes the task of this id, and nothing else, out of the
\* collection: no task of the id is left, every other task is still there
\* as it was, once, and in the order the others had
Removed(id) ==
    /\ \A j \in DOMAIN todos' : todos'[j].id # id
    /\ \A i \in DOMAIN todos :
         todos[i].id # id => \E j \in DOMAIN todos' : todos'[j] = todos[i]
    /\ Len(todos') = Cardinality({i \in DOMAIN todos : todos[i].id # id})
    /\ \A j1, j2 \in DOMAIN todos' :
         j1 < j2 => \E i1, i2 \in DOMAIN todos :
                       /\ i1 < i2
                       /\ todos[i1] = todos'[j1]
                       /\ todos[i2] = todos'[j2]
    /\ id \notin TodoIds => todos' = todos

\* C4: a successful delete of an id removes exactly the task of that id: no
\* task of the id is left, every other task is still present, unchanged and
\* in the same relative order, and the delete of an id that is not in the
\* collection changes nothing.  On the local page the delete is the click;
\* on the persisted page it is the store's success.
C4_DeleteRemovesExactlyTheTask ==
    [][/\ \A id \in 1..nextId :
            (variant = "local" /\ deleteTodo_local(id)) => Removed(id)
       /\ \A call \in BagToSet(inflight) :
            deleteTodo_resolve(call, FALSE) => Removed(call.id)
      ]_vars

\* the persisted page after its one call, the delete of the middle one of
\* three tasks, succeeded: the other two are left, in their order
C4_Witness ==
    /\ variant = "persisted"
    /\ calls = 1
    /\ inflight = EmptyBag
    /\ feedback = NoFeedback
    /\ Len(fetched(RowsHeld)) >= 3
    /\ todos = <<fetched(RowsHeld)[1]>>
                 \o SubSeq(fetched(RowsHeld), 3, RowsHeld)

----------------------------------------------------------------------------
(* C5 *)

\* C5: when the delete of a task takes effect, the edit sessions open on
\* that task are cancelled with it: editingId becomes null if it named the
\* task, and fieldEditing becomes null if it named the task.
C5_DeleteCancelsEditSessions ==
    [][\A id \in TodoIds :
          id \notin TodoIds'
          => /\ editingId = id => editingId' = NoId
             /\ fieldEditing.id = id => fieldEditing' = NoFieldEditing
      ]_vars

----------------------------------------------------------------------------
(* C6 *)

\* the store answers this call with an error
Failed(call) ==
    \/ addTodo_resolve(call, TRUE)
    \/ toggleTodo_resolve(call, TRUE)
    \/ deleteTodo_resolve(call, TRUE)
    \/ saveEditing_resolve(call, TRUE)
    \/ saveFieldEditing_resolve(call, TRUE)

\* C6: on the persisted page, when the remote write of a create, a toggle,
\* a delete, a full-row save or a single-field save fails, the failure
\* leaves the collection exactly what it was, the create form keeps what
\* the user entered, and a feedback message of type error is set.
C6_FailureLeavesStateAndReports ==
    [][\A call \in BagToSet(inflight) :
          Failed(call)
          => /\ todos' = todos
             /\ form' = form
             /\ feedback'.type = "error"
      ]_vars

\* the persisted page after its one call, a create, failed: the form still
\* holds the text and the change the user entered, the collection is the
\* fetched one, the error is reported
C6_Witness ==
    /\ variant = "persisted"
    /\ calls = 1
    /\ inflight = EmptyBag
    /\ feedback = [type |-> "error", message |-> "addFailed"]
    /\ form.text = <<" ", "a", " ">>
    /\ form # [emptyForm EXCEPT !.text = form.text]
    /\ todos = fetched(1)
    /\ ~isSubmitting

----------------------------------------------------------------------------
(* C7 *)

\* the store answers this call without an error
Succeeded(call) ==
    \/ addTodo_resolve(call, FALSE)
    \/ toggleTodo_resolve(call, FALSE)
    \/ deleteTodo_resolve(call, FALSE)
    \/ saveEditing_resolve(call, FALSE)
    \/ saveFieldEditing_resolve(call, FALSE)

\* C7: on the persisted page the collection is never updated ahead of the
\* store: every step that changes it is the step in which a call that was
\* awaiting its answer is answered without an error, and the change is that
\* call's; no step that issues a call, and no step between the issue and
\* the answer, changes it.
C7_NoOptimisticUpdate ==
    [][(variant = "persisted" /\ todos' # todos)
       => \E call \in BagToSet(inflight) : Answered(call) /\ Succeeded(call)
      ]_vars

\* the persisted page after its one call, the toggle of the fetched task,
\* was answered without an error: the task is completed now
C7_Witness ==
    /\ variant = "persisted"
    /\ calls = 1
    /\ inflight = EmptyBag
    /\ feedback = NoFeedback
    /\ todos = [fetched(1) EXCEPT ![1].completed = TRUE]
    /\ toggles[1]

----------------------------------------------------------------------------
(* C8 *)

\* the number of create calls awaiting an answer
InsertWrites(bag) ==
    LET inserts == {call \in BagToSet(bag) : call.op = "insert"}
    IN  BagCardinality([call \in inserts |-> bag[call]])

\* C8: on the persisted page at most one create call is in flight at any
\* time, and a submit made while isSubmitting is true issues no call and
\* adds no task.
C8_CreateGuardedAgainstDoubleSubmit ==
    [][/\ InsertWrites(inflight) <= 1
       /\ InsertWrites(inflight') <= 1
       /\ (variant = "persisted" /\ AddSubmit /\ isSubmitting)
          => /\ inflight' = inflight
             /\ calls' = calls
             /\ todos' = todos
      ]_vars

\* the persisted page just after a submit of a text that is not blank did
\* nothing, a create being in flight
C8_Witness ==
    /\ variant = "persisted"
    /\ ignored = "addTodo"
    /\ isSubmitting
    /\ trim(form.text) # <<>>
    /\ InsertWrites(inflight) = 1
    /\ calls = 1

----------------------------------------------------------------------------
(* C9 *)

\* the elements of a sequence
Elements(seq) == {seq[i] : i \in DOMAIN seq}

\* C9: for every collection and every pair of selectors the derived view
\* holds exactly the tasks of the collection that satisfy both predicates:
\* the status selector is all, or it is completed and the task is
\* completed, or it is pending and the task is not completed; and the
\* category selector is all or it is the task's category.  No task is in the
\* view twice and none is altered.
C9_ViewIsExactlyTheFilter ==
    LET passing ==
          {i \in DOMAIN todos :
             /\ \/ filter = "all"
                \/ filter = "completed" /\ todos[i].completed
                \/ filter = "pending" /\ ~todos[i].completed
             /\ \/ categoryFilter = "all"
                \/ categoryFilter = todos[i].category}
    IN  /\ Elements(filteredAndSortedTodos) = {todos[i] : i \in passing}
        /\ Len(filteredAndSortedTodos) = Cardinality(passing)

\* both selectors at work on three tasks: one passes both, one fails the
\* status selector alone, one fails the category selector alone
C9_Witness ==
    /\ filter = "pending"
    /\ categoryFilter = "gaein"
    /\ Len(todos) = 3
    /\ Len(filteredAndSortedTodos) = 1
    /\ \E i \in DOMAIN todos :
         todos[i].completed /\ todos[i].category = "gaein"
    /\ \E i \in DOMAIN todos :
         ~todos[i].completed /\ todos[i].category # "gaein"

----------------------------------------------------------------------------
(* C10 *)

\* C10: for every collection, with the category selector at all, the view
\* under the status completed and the view under the status pending have no
\* task in common, and together they hold the tasks of the view under the
\* status all, which are the tasks of the collection.
C10_CompletedAndPendingPartition ==
    categoryFilter = "all"
    => LET completedView ==
             Elements(filteredAndSortedTodosOf(todos, "completed",
                                               categoryFilter, sortBy))
           pendingView ==
             Elements(filteredAndSortedTodosOf(todos, "pending",
                                               categoryFilter, sortBy))
           allView ==
             Elements(filteredAndSortedTodosOf(todos, "all",
                                               categoryFilter, sortBy))
       IN  /\ completedView \cap pendingView = {}
           /\ completedView \cup pendingView = allView
           /\ allView = Elements(todos)

\* three tasks, completed and pending ones among them, shown under the
\* status completed and the category selector all
C10_Witness ==
    /\ categoryFilter = "all"
    /\ filter = "completed"
    /\ Len(todos) = 3
    /\ Len(filteredAndSortedTodos) = 2
    /\ sortBy = "priority"

----------------------------------------------------------------------------
(* SpecSort: the sort of the derived view.  The page holds any collection  *)
(* of at most MaxSortLen tasks, of any priorities and due dates, in any    *)
(* order, every other one of them completed, and the user works the status *)
(* filter and the sort selector.                                           *)

sortDates == {"", "2024-01-05", "2024-01-10"}

\* the task at place i: those at the odd places are completed
sortTask(i, priority, dueDate) ==
    [id |-> i, text |-> <<"a">>, category |-> categoryOptions[1],
     priority |-> priority, dueDate |-> dueDate, completed |-> i % 2 = 1]

InitSort ==
    /\ variant \in {"local", "persisted"}
    /\ session = (variant = "persisted")
    /\ \E n \in 0..MaxSortLen :
         \E ps \in [1..n -> Priorities], ds \in [1..n -> sortDates] :
            todos = [i \in 1..n |-> sortTask(i, ps[i], ds[i])]
    /\ nextId = Len(todos) + 1
    /\ InitPage
    /\ picked = [editor |-> "row", field |-> "text", value |-> <<"b", " ">>]

NextSort ==
    \/ StatusSelect
    \/ SortSelect

SpecSort == InitSort /\ [][NextSort]_vars

\* the place a task of the view has in the collection
Place(todo) == CHOOSE i \in DOMAIN todos : todos[i] = todo

----------------------------------------------------------------------------
(* C11 *)

\* C11: under the sort key priority the derived view has every high task
\* before every medium task and every medium task before every low task,
\* and tasks of equal priority are in the order they have in the collection,
\* whatever the collection and its order.
C11_PrioritySortOrder ==
    sortBy = "priority"
    => \A j1, j2 \in DOMAIN filteredAndSortedTodos :
         j1 < j2
         => LET first == filteredAndSortedTodos[j1]
                second == filteredAndSortedTodos[j2]
            IN  /\ first.priority = "low" => second.priority = "low"
                /\ first.priority = "medium" => second.priority # "high"
                /\ first.priority = second.priority
                   => Place(first) < Place(second)

\* three tasks held in the order low, high, high are shown under the sort
\* key priority: the two high ones come first, in their order, the low last
C11_Witness ==
    /\ sortBy = "priority"
    /\ filter = "all"
    /\ Len(todos) = 3
    /\ todos[1].priority = "low"
    /\ todos[2].priority = "high"
    /\ todos[3].priority = "high"
    /\ filteredAndSortedTodos = <<todos[2], todos[3], todos[1]>>

----------------------------------------------------------------------------
(* C12 *)

\* the due dates of these runs, from the earliest on
dateOrder == <<"2024-01-05", "2024-01-10", "2024-01-20">>
DateRank(d) == CHOOSE k \in DOMAIN dateOrder : dateOrder[k] = d

\* C12: under the sort key date the derived view has every task with a due
\* date before every task with none, the tasks with a due date in
\* non-decreasing order of it, and the tasks with none in the order they
\* have in the collection, whatever the collection and its order.
C12_DateSortOrder ==
    sortBy = "date"
    => \A j1, j2 \in DOMAIN filteredAndSortedTodos :
         j1 < j2
         => LET first == filteredAndSortedTodos[j1]
                second == filteredAndSortedTodos[j2]
            IN  /\ first.dueDate = "" => second.dueDate = ""
                /\ (first.dueDate # "" /\ second.dueDate # "")
                   => DateRank(first.dueDate) <= DateRank(second.dueDate)
                /\ (first.dueDate = "" /\ second.dueDate = "")
                   => Place(first) < Place(second)

\* three tasks held in the order none, the 10th, the 5th are shown under
\* the status completed and the sort key date: the second one is filtered
\* out, the 5th comes first, the one with no due date last
C12_Witness ==
    /\ sortBy = "date"
    /\ filter = "completed"
    /\ Len(todos) = 3
    /\ todos[1].dueDate = ""
    /\ todos[2].dueDate = "2024-01-10"
    /\ todos[3].dueDate = "2024-01-05"
    /\ filteredAndSortedTodos = <<todos[3], todos[1]>>

----------------------------------------------------------------------------
(* The statistics of the page, the same code in both pages *)

completedCount == Len(SelectSeq(todos, LAMBDA todo : todo.completed))

pendingCount == Len(SelectSeq(todos, LAMBDA todo : ~todo.completed))

\* Math.round of the quotient num / den of two naturals, den positive: the
\* nearest integer, a half going up
MathRound(num, den) == (2 * num + den) \div (2 * den)

\* progressPercentage as Math.floor would give it
progressPercentage_floored ==
    IF Len(todos) = 0 THEN 0 ELSE (completedCount * 100) \div Len(todos)

progressPercentage ==
    IF Len(todos) = 0 THEN 0 ELSE MathRound(completedCount * 100, Len(todos))

----------------------------------------------------------------------------
(* SpecStats: the statistics of a page that holds up to MaxStatsLen tasks, *)
(* the local page after that many creates, the persisted page after its    *)
(* fetch.  The user ticks checkboxes and deletes rows, the store answers.   *)

InitStats ==
    /\ \E n \in 0..MaxStatsLen :
         /\ \/ variant = "local" /\ session = FALSE /\ todos = created(n)
            \/ variant = "persisted" /\ session = TRUE /\ todos = fetched(n)
         /\ nextId = n + 1
    /\ InitPage
    /\ picked = [editor |-> "row", field |-> "text", value |-> <<"b", " ">>]

NextStats ==
    \/ RowCheckbox
    \/ RowDeleteButton
    \/ ToggleAnswer
    \/ DeleteAnswer

SpecStats == InitStats /\ [][NextStats]_vars

----------------------------------------------------------------------------
(* C13 *)

----------------------------------------------------------------------------
(* C14 *)

\* categoryStats of a collection: every category starts at zero, every task
\* counts for its category
RECURSIVE categoryStatsOf(_)
categoryStatsOf(ts) ==
    IF ts = <<>>
    THEN [cat \in Categories |-> [total |-> 0, completed |-> 0]]
    ELSE LET front == categoryStatsOf(SubSeq(ts, 1, Len(ts) - 1))
             todo == ts[Len(ts)]
         IN  [front EXCEPT
                ![todo.category].total = @ + 1,
                ![todo.category].completed = IF todo.completed THEN @ + 1 ELSE @]

\* categoryStats counting the tasks of the derived view
categoryStats_ofView == categoryStatsOf(filteredAndSortedTodos)

categoryStats == categoryStatsOf(todos)

\* C14: for each of the four categories the aggregate {total, completed} is
\* the number of tasks, and of completed tasks, of that category in the full
\* collection, whatever the status filter, the category filter and the sort
\* key are, and the four totals add up to the size of the collection.
C14_CategoryStatsOverFullCollection ==
    /\ DOMAIN categoryStats = Categories
    /\ \A cat \in Categories :
         /\ categoryStats[cat].total
              = Cardinality({i \in DOMAIN todos : todos[i].category = cat})
         /\ categoryStats[cat].completed
              = Cardinality({i \in DOMAIN todos :
                               todos[i].category = cat /\ todos[i].completed})
    /\ categoryStats[categoryOptions[1]].total
         + categoryStats[categoryOptions[2]].total
         + categoryStats[categoryOptions[3]].total
         + categoryStats[categoryOptions[4]].total = Len(todos)

\* three tasks, two of one category, one of them completed, while the
\* filters show one task only and the sort key is not the first one
C14_Witness ==
    /\ filter = "completed"
    /\ categoryFilter = "gaein"
    /\ sortBy = "name"
    /\ Len(todos) = 3
    /\ Len(filteredAndSortedTodos) = 1
    /\ categoryStats["eopmu"] = [total |-> 2, completed |-> 1]
    /\ categoryStats["gaein"] = [total |-> 1, completed |-> 1]

----------------------------------------------------------------------------
(* C15 *)

\* this step is the end of a handler that awaited this answer
Completed(answer) ==
    BagIn(answer, answers) /\ answers' = answers (-) SetToBag({answer})

\* C15: in the persisted page, once a sign-out call has completed, which is
\* when handleSignOut has run to its end, there is no session and the
\* collection is empty.
C15_SignOutLeavesUnauthenticated ==
    [][\A answer \in BagToSet(answers) :
          answer.call.op = "signout" /\ Completed(answer)
              => ~session' /\ todos' = <<>>]_vars

----------------------------------------------------------------------------
(* C16 *)

\* this step is the provider serving this call with this error
Served(call, error) ==
    /\ BagIn(call, inflight)
    /\ inflight' = inflight (-) SetToBag({call})
    /\ answers' = answers (+) SetToBag({answerOf(call, error, <<>>)})

\* a sign-in that fails, a sign-up that fails, a sign-up that succeeds
StaysOut(mode, error) == mode \in AuthModes /\ (mode = "signup" \/ error # "")

\* C16: in the persisted page without a session and with an empty
\* collection, a sign-in that fails, a sign-up that fails and a sign-up that
\* succeeds leave the page without a session and with an empty collection,
\* both when the provider serves the call and when handleAuth completes; on
\* completion a failure sets a feedback of type error, the generic sign-in
\* failure message for credentials the provider does not know, and the
\* successful sign-up sets a feedback of type success.
C16_FailedAuthStaysUnauthenticated ==
    [][~session /\ todos = <<>> =>
         /\ \A call \in BagToSet(inflight), outcome \in AuthOutcomes :
              LET error == IF outcome = "ok" THEN "" ELSE outcome
              IN  StaysOut(call.op, error) /\ Served(call, error)
                      => ~session' /\ todos' = <<>>
         /\ \A answer \in BagToSet(answers) :
              StaysOut(answer.call.op, answer.error) /\ Completed(answer)
                  => /\ ~session' /\ todos' = <<>>
                     /\ feedback'.type =
                            IF answer.error # "" THEN "error" ELSE "success"
                     /\ answer.call.op = "signin"
                        /\ answer.error = "invalid login credentials"
                            => feedback'.message = "signInFailed"]_vars

\* two calls of the sign-in form have completed, the last a sign-in that
\* the provider refused
C16_Witness ==
    /\ ~session /\ todos = <<>>
    /\ calls = 2 /\ inflight = EmptyBag /\ answers = EmptyBag
    /\ ~authLoading
    /\ feedback = [type |-> "error", message |-> "signInFailed"]

----------------------------------------------------------------------------
(* C17 *)

\* the fetches awaiting service
FetchesWaiting(bag) == CopiesIn([op |-> "fetch"], bag)

\* C17: in the persisted page, every step in which the session becomes
\* present, by the answer of the initial session query or by a notice of
\* the provider, issues a fetch of the collection, and every step in which
\* the session becomes absent empties the collection and sets isLoading to
\* false and issues no call.
C17_SessionChangeRunsEffect ==
    [][/\ ~session /\ session'
           => /\ FetchesWaiting(inflight') = FetchesWaiting(inflight) + 1
              /\ calls' = calls + 1
              /\ isLoading'
       /\ session /\ ~session'
           => /\ todos' = <<>>
              /\ ~isLoading'
              /\ FetchesWaiting(inflight') = FetchesWaiting(inflight)
              /\ calls' = calls]_vars

\* a session began and ended before the store served the fetch it started
C17_Witness ==
    /\ ~session /\ todos = <<>> /\ ~isLoading
    /\ calls = 1 /\ FetchesWaiting(inflight) = 1

----------------------------------------------------------------------------
(* C18 *)

\* C18: in every reachable state no two tasks of the collection have the
\* same id, whatever the order in which the answer of a create and the
\* answer of a fetch reach the persisted page.
C18_IdsUnique ==
    \A i, j \in DOMAIN todos : todos[i].id = todos[j].id => i = j

----------------------------------------------------------------------------
(* C19 *)

\* C19: in every state every task of the collection is well formed: its
\* text is not empty and neither starts nor ends with whitespace, its
\* category is one of the four categories and its priority one of low,
\* medium, high; no create, full-row save or single-field save stores
\* anything else.
C19_TasksWellFormed ==
    \A i \in DOMAIN todos :
       /\ todos[i].text # <<>>
       /\ todos[i].text[1] # " "
       /\ todos[i].text[Len(todos[i].text)] # " "
       /\ todos[i].category \in {"eopmu", "gaein", "hakseup", "gita"}
       /\ todos[i].priority \in {"low", "medium", "high"}

\* a full-row save has stored the draft text typed with a trailing blank
C19_Witness ==
    /\ picked.field = "text"
    /\ \E i \in DOMAIN todos : todos[i].text = <<"b">>
    /\ editingId = NoId

----------------------------------------------------------------------------
(* C20 *)

\* this step sets text, category, priority and due date of the task of this
\* id to the draft, the text trimmed, keeps its id and completed, and leaves
\* every other task as it was
EditedTo(id, draft) ==
    /\ Len(todos') = Len(todos)
    /\ \A i \in DOMAIN todos :
         IF todos[i].id = id
         THEN /\ todos'[i].text = trim(draft.text)
              /\ todos'[i].category = draft.category
              /\ todos'[i].priority = draft.priority
              /\ todos'[i].dueDate = draft.dueDate
              /\ todos'[i].id = todos[i].id
              /\ todos'[i].completed = todos[i].completed
         ELSE todos'[i] = todos[i]

\* C20: a full-row save that succeeds, the draft text not blank, sets the
\* task's text, trimmed, category, priority and due date to the draft,
\* keeps its id and completed, leaves every other task unchanged and closes
\* the session; a save of a blank draft text and a cancel leave the
\* collection unchanged.  On the local page the save is the click; on the
\* persisted page the click sends the draft and the store's success applies
\* the draft that was sent.  The save and cancel buttons are rendered in an
\* open session only.
C20_FullRowEdit ==
    [][/\ editingId # NoId =>
            /\ (variant = "local" /\ trim(editForm.text) # <<>>
                  /\ RowSaveButton)
               => EditedTo(editingId, editForm) /\ editingId' = NoId
            /\ (variant = "persisted" /\ trim(editForm.text) # <<>>
                  /\ RowSaveButton)
               => /\ Issued([op |-> "update", id |-> editingId,
                             editForm |-> editForm])
                  /\ todos' = todos
            /\ (trim(editForm.text) = <<>> /\ RowSaveButton)
               => todos' = todos /\ inflight' = inflight
            /\ RowCancelButton => todos' = todos /\ inflight' = inflight
       /\ \A call \in BagToSet(inflight) :
            saveEditing_resolve(call, FALSE)
            => EditedTo(call.id, call.editForm) /\ editingId' = NoId
      ]_vars

\* the persisted page after its one call, the save of a draft with the due
\* date changed, succeeded: the fetched task has the due date of the draft,
\* and the session is closed
C20_Witness ==
    /\ variant = "persisted"
    /\ calls = 1
    /\ inflight = EmptyBag
    /\ nextId = 2
    /\ todos = [fetched(1) EXCEPT ![1].dueDate = "2024-01-05"]
    /\ picked.editor = "row"
    /\ editingId = NoId

----------------------------------------------------------------------------
(* C21 *)

\* this step sets this one field of the task of this id to this value and
\* leaves its other fields and every other task as they were
FieldSetTo(id, field, value) ==
    /\ Len(todos') = Len(todos)
    /\ \A i \in DOMAIN todos :
         IF todos[i].id = id
         THEN \A key \in DOMAIN todos[i] :
                  todos'[i][key] = IF key = field THEN value ELSE todos[i][key]
         ELSE todos'[i] = todos[i]

\* C21: a single-field save that succeeds sets that one field of the task
\* of the session to the draft value, leaves the task's other fields and
\* every other task unchanged and closes the session; a cancel closes the
\* session and changes no task.  On the local page the save is the click;
\* on the persisted page the click sends the draft value and the store's
\* success applies the value that was sent.  The save and cancel buttons
\* are rendered in an open session only.
C21_SingleFieldEdit ==
    [][/\ fieldEditing # NoFieldEditing =>
            /\ (variant = "local" /\ FieldSaveButton)
               => /\ FieldSetTo(fieldEditing.id, fieldEditing.field,
                                fieldEditValue)
                  /\ fieldEditing' = NoFieldEditing
            /\ (variant = "persisted" /\ FieldSaveButton)
               => /\ Issued([op |-> "updateField", id |-> fieldEditing.id,
                             field |-> fieldEditing.field,
                             value |-> fieldEditValue])
                  /\ todos' = todos
            /\ FieldCancelButton
               => /\ todos' = todos
                  /\ inflight' = inflight
                  /\ fieldEditing' = NoFieldEditing
       /\ \A call \in BagToSet(inflight) :
            saveFieldEditing_resolve(call, FALSE)
            => /\ FieldSetTo(call.id, call.field, call.value)
               /\ fieldEditing' = NoFieldEditing
      ]_vars

\* the persisted page after its one call, the save of the priority of the
\* fetched task, succeeded: the task has the priority of the draft and its
\* other fields as fetched, and the session is closed
C21_Witness ==
    /\ variant = "persisted"
    /\ calls = 1
    /\ inflight = EmptyBag
    /\ nextId = 2
    /\ picked = [editor |-> "inline", field |-> "priority", value |-> "high"]
    /\ todos = [fetched(1) EXCEPT ![1].priority = "high"]
    /\ fieldEditing = NoFieldEditing

----------------------------------------------------------------------------
(* C22 *)

\* the rows rendered under full-row edit, the fields rendered under edit
RowEditorsOpen == {i \in DOMAIN todos : todos[i].id = editingId}
FieldEditorsOpen ==
    {<<i, field>> \in (DOMAIN todos) \X FieldKeys :
        fieldEditing.id = todos[i].id /\ fieldEditing.field = field}

\* C22: at most one full-row edit session and at most one single-field edit
\* session are open at any time; starting a session replaces the open one
\* of its kind and leaves the one of the other kind alone; and no step
\* starts a single-field session on the task whose full-row session is
\* open.
C22_OneSessionOfEachKind ==
    [][/\ Cardinality(RowEditorsOpen) <= 1
       /\ Cardinality(FieldEditorsOpen) <= 1
       /\ RowEditButton
          => /\ editingId' \in TodoIds \ {editingId}
             /\ fieldEditing' = fieldEditing
       /\ FieldButton
          => /\ fieldEditing'.id \in TodoIds
             /\ fieldEditing' # fieldEditing
             /\ editingId' = editingId
       /\ (fieldEditing' # fieldEditing /\ fieldEditing' # NoFieldEditing)
          => editingId # fieldEditing'.id
      ]_vars

\* a full-row session and a single-field session are open, on two tasks,
\* the single-field one started while the other was open or before it
C22_Witness ==
    /\ picked.editor = "both"
    /\ editingId = 2
    /\ fieldEditing.id = 1
    /\ Cardinality(RowEditorsOpen) = 1
    /\ Cardinality(FieldEditorsOpen) = 1

----------------------------------------------------------------------------
(* C23 *)

\* C23: on the persisted page the completions of the remote operations are
\* applied in the order the user triggered the operations: the call whose
\* answer a step applies is the oldest of the calls awaiting their answers.
C23_CompletionsInTriggerOrder ==
    [][\A call \in BagToSet(inflight) :
          Answered(call) => call = Head(trail)]_vars

----------------------------------------------------------------------------
(* C24 *)

\* C24: on the persisted page every completion of a remote call, with an
\* error or without, leaves the flag of its handler false: isSubmitting
\* after a create, authLoading after a sign-in or a sign-up, isLoading after
\* a fetch.
C24_FlagsReturnToFalse ==
    [][\A answer \in BagToSet(answers) :
          Completed(answer)
          => /\ answer.call.op = "insert" => ~isSubmitting'
             /\ answer.call.op \in AuthModes => ~authLoading'
             /\ answer.call.op = "fetch" => ~isLoading'
      ]_vars

\* the fetch of the session has completed and a create after it has failed:
\* nothing is awaited and the page is neither loading nor submitting
C24_Witness ==
    /\ session
    /\ calls = 2 /\ inflight = EmptyBag /\ answers = EmptyBag
    /\ ~isLoading /\ ~isSubmitting
    /\ feedback = [type |-> "error", message |-> "addFailed"]

----------------------------------------------------------------------------
(* C25 *)

\* C25: on the persisted page a sign-out call that fails leaves the
\* collection as it was and the session present, and sets a feedback
\* message of type error.
C25_FailedSignOutReported ==
    [][\A answer \in BagToSet(answers) :
          (answer.call.op = "signout" /\ answer.error # ""
              /\ Completed(answer))
          => /\ todos' = todos
             /\ session' = session
             /\ feedback'.type = "error"
      ]_vars

----------------------------------------------------------------------------
(* C26 *)

\* C26: on the persisted page, whenever there is no session the collection
\* is empty, whatever the order in which the answers of the calls that were
\* under way when the session ended reach the page.
C26_NoSessionNoTasks ==
    variant = "persisted" /\ ~session => todos = <<>>

----------------------------------------------------------------------------
(* C27 *)

\* C27: in every reachable state an open full-row edit session refers to a
\* task of the collection: editingId is null or the id of a task in todos.
C27_EditingIdInCollection ==
    editingId = NoId \/ editingId \in TodoIds

----------------------------------------------------------------------------
(* C30 *)

\* C30: in every reachable state no task has both its full-row edit session
\* and a single-field edit session open, whichever was started first.
C30_SessionsExclusivePerTask ==
    editingId # NoId => fieldEditing.id # editingId

----------------------------------------------------------------------------
(* C28 *)

\* C28: on the persisted page the completion of a save closes only the
\* session it was issued for: a full-row session on another task, or a
\* single-field session on another task or field, that the user opened
\* while the save was under way is still open, its draft intact, after the
\* save has completed.
C28_SaveClosesOnlyItsSession ==
    [][\A call \in BagToSet(inflight) :
          /\ (editingId # NoId /\ call.op = "update" /\ editingId # call.id
                /\ saveEditing_resolve(call, FALSE))
             => editingId' = editingId /\ editForm' = editForm
          /\ (fieldEditing # NoFieldEditing /\ call.op = "updateField"
                /\ fieldEditing # [id |-> call.id, field |-> call.field]
                /\ saveFieldEditing_resolve(call, FALSE))
             => /\ fieldEditing' = fieldEditing
                /\ fieldEditValue' = fieldEditValue
      ]_vars

----------------------------------------------------------------------------
(* C29 *)

\* what a fetch of the store would put in the collection now
Mirror == [i \in DOMAIN remote |-> mapRowToTodo(remote[i])]

\* C29: on the persisted page with its one client, whenever the session is
\* present, no call is under way and every call so far was served without
\* an error, the collection is what a fetch of the store would return: the
\* same tasks with the same fields, newest first.
C29_CollectionMirrorsStore ==
    (session /\ inflight = EmptyBag /\ answers = EmptyBag /\ succeeded)
        => todos = Mirror

====
